---- MODULE Spec2Model ----
(***************************************************************************)
(* A model of skotch's physics module (SimplePhysicsBody, SphereCollider,  *)
(* attachPhysics, stepPhysics) and of the animation loop of its Scene.     *)
(*                                                                         *)
(* Numbers.  A JavaScript number is modelled as an exact rational n/d in   *)
(* lowest terms, or one of the IEEE-754 special values Infinity, -Infinity *)
(* and NaN, which is what the code stores after a division by zero.        *)
(* These numbers do not round (the rounded arithmetic further down does)   *)
(* and signed zeros are not modelled.  A result whose numerator            *)
(* or denominator leaves the window -Limit..Limit, or a square root that   *)
(* is irrational, is the value Unrep; an operation whose outcome holds an  *)
(* Unrep is outside the model (the actions' guards exclude it).            *)
(***************************************************************************)
EXTENDS Integers, Sequences, FiniteSets, TLC

VARIABLES
    meshes,     \* the list handed to stepPhysics: position + userData.physics
    last,       \* history: the last operation, its inputs and what it did
    applied,    \* history: per mesh, the forces applied since the last
                \*          integrate call that had dt > 0
    attached,   \* history: per mesh, the body and collider of the most
                \*          recent attachPhysics call on it
    scene,      \* the Scene that is animated, with the browser's clock and
                \*          its queue of animation-frame requests
    nOps        \* number of operations performed so far

vars == <<meshes, last, applied, attached, scene, nOps>>

-----------------------------------------------------------------------------
(* Bounds *)

Limit == 30000      \* numerators and denominators stay within -Limit..Limit
MaxOps == 2         \* operations per behaviour of Spec
MaxBodyOps == 4     \* operations per behaviour of SpecBody

-----------------------------------------------------------------------------
(* Numbers *)

Abs(n) == IF n < 0 THEN -n ELSE n
Sgn(n) == IF n < 0 THEN -1 ELSE IF n > 0 THEN 1 ELSE 0

RECURSIVE GCD(_, _)
GCD(a, b) == IF b = 0 THEN a ELSE GCD(b, a % b)

NaN == [k |-> "nan", n |-> 0, d |-> 0]
Unrep == [k |-> "unrep", n |-> 0, d |-> 0]
Infinity(s) == [k |-> "inf", n |-> s, d |-> 0]

\* The number n/d (d # 0) in lowest terms.
Rat(n, d) ==
    LET g == GCD(Abs(n), Abs(d))
        nn == Sgn(d) * (n \div g)
        dd == Abs(d) \div g
    IN  IF Abs(nn) > Limit \/ dd > Limit THEN Unrep
        ELSE [k |-> "fin", n |-> nn, d |-> dd]

Zero == Rat(0, 1)
One == Rat(1, 1)

IsFinite(a) == a.k = "fin"

NumNeg(a) ==
    IF a.k = "fin" THEN [a EXCEPT !.n = -a.n]
    ELSE IF a.k = "inf" THEN Infinity(-a.n)
    ELSE a

NumAdd(a, b) ==
    IF a.k = "unrep" \/ b.k = "unrep" THEN Unrep
    ELSE IF a.k = "nan" \/ b.k = "nan" THEN NaN
    ELSE IF a.k = "inf" /\ b.k = "inf" THEN (IF a.n = b.n THEN a ELSE NaN)
    ELSE IF a.k = "inf" THEN a
    ELSE IF b.k = "inf" THEN b
    ELSE Rat(a.n * b.d + b.n * a.d, a.d * b.d)

NumSub(a, b) == NumAdd(a, NumNeg(b))

NumMul(a, b) ==
    IF a.k = "unrep" \/ b.k = "unrep" THEN Unrep
    ELSE IF a.k = "nan" \/ b.k = "nan" THEN NaN
    ELSE IF a.k = "inf" \/ b.k = "inf"
         THEN (IF a.n = 0 \/ b.n = 0 THEN NaN ELSE Infinity(Sgn(a.n) * Sgn(b.n)))
    ELSE Rat(a.n * b.n, a.d * b.d)

NumDiv(a, b) ==
    IF a.k = "unrep" \/ b.k = "unrep" THEN Unrep
    ELSE IF a.k = "nan" \/ b.k = "nan" THEN NaN
    ELSE IF a.k = "inf"
         THEN (IF b.k = "inf" THEN NaN
               ELSE Infinity(a.n * (IF b.n < 0 THEN -1 ELSE 1)))
    ELSE IF b.k = "inf" THEN Zero
    ELSE IF b.n = 0 THEN (IF a.n = 0 THEN NaN ELSE Infinity(Sgn(a.n)))
    ELSE Rat(a.n * b.d, a.d * b.n)

\* a < b as JavaScript decides it: false as soon as one side is NaN.
NumLt(a, b) ==
    IF a.k \in {"nan", "unrep"} \/ b.k \in {"nan", "unrep"} THEN FALSE
    ELSE IF a.k = "inf" THEN a.n = -1 /\ ~(b.k = "inf" /\ b.n = -1)
    ELSE IF b.k = "inf" THEN b.n = 1
    ELSE a.n * b.d < b.n * a.d

\* a === b on numbers: NaN equals nothing.
NumEq(a, b) == a.k \in {"fin", "inf"} /\ a = b

NumGt(a, b) == NumLt(b, a)
NumLe(a, b) == NumLt(a, b) \/ NumEq(a, b)
NumGe(a, b) == NumLe(b, a)

\* The largest r in lo..hi with r * r <= n (lo * lo <= n).
RECURSIVE RootIn(_, _, _)
RootIn(n, lo, hi) ==
    IF lo = hi THEN lo
    ELSE LET mid == (lo + hi + 1) \div 2
         IN  IF mid * mid <= n THEN RootIn(n, mid, hi) ELSE RootIn(n, lo, mid - 1)

IsSquare(n) == LET r == RootIn(n, 0, n) IN r * r = n

\* Math.sqrt
NumSqrt(a) ==
    IF a.k \in {"unrep", "nan"} THEN a
    ELSE IF a.k = "inf" THEN (IF a.n = 1 THEN a ELSE NaN)
    ELSE IF a.n < 0 THEN NaN
    ELSE IF IsSquare(a.n) /\ IsSquare(a.d)
         THEN Rat(RootIn(a.n, 0, a.n), RootIn(a.d, 0, a.d))
    ELSE Unrep

-----------------------------------------------------------------------------
(* VecLike and its helpers *)

Vec(a, b, c) == [x |-> a, y |-> b, z |-> c]
ZeroVec == Vec(Zero, Zero, Zero)

add(a, b) == Vec(NumAdd(a.x, b.x), NumAdd(a.y, b.y), NumAdd(a.z, b.z))

sub(a, b) == Vec(NumSub(a.x, b.x), NumSub(a.y, b.y), NumSub(a.z, b.z))

mulScalar(a, s) == Vec(NumMul(a.x, s), NumMul(a.y, s), NumMul(a.z, s))

length(v) ==
    NumSqrt(NumAdd(NumAdd(NumMul(v.x, v.x), NumMul(v.y, v.y)), NumMul(v.z, v.z)))

FiniteVec(v) == IsFinite(v.x) /\ IsFinite(v.y) /\ IsFinite(v.z)
UnrepVec(v) == v.x.k = "unrep" \/ v.y.k = "unrep" \/ v.z.k = "unrep"

-----------------------------------------------------------------------------
(* SphereCollider, SimplePhysicsBody *)

Undefined == [undefined |-> TRUE]

SphereCollider(radius, offset) == [radius |-> radius, offset |-> offset]

\* new SimplePhysicsBody(mass), with the public field velocity set by the caller
SimplePhysicsBody(mass, velocity) ==
    [velocity |-> velocity, mass |-> mass, accumulatedForce |-> ZeroVec]

applyForce(body, force) ==
    [body EXCEPT !.accumulatedForce = add(body.accumulatedForce, force)]

\* Fault variant of integrate: a call with dt <= 0 discards the pending force.
integrateDiscardsPending(body, position, dt) ==
    IF NumLe(dt, Zero)
    THEN [body |-> [body EXCEPT !.accumulatedForce = ZeroVec], position |-> position]
    ELSE LET velocity == add(body.velocity,
                             mulScalar(Vec(NumDiv(body.accumulatedForce.x, body.mass),
                                           NumDiv(body.accumulatedForce.y, body.mass),
                                           NumDiv(body.accumulatedForce.z, body.mass)),
                                       dt))
         IN  [body |-> [body EXCEPT !.velocity = velocity,
                                    !.accumulatedForce = ZeroVec],
              position |-> add(position, mulScalar(velocity, dt))]

\* Fault variant of integrate: explicit Euler, the position advances by the
\* velocity the body had before the update.
integrateExplicitEuler(body, position, dt) ==
    IF NumLe(dt, Zero) THEN [body |-> body, position |-> position]
    ELSE [body |-> [body EXCEPT
                      !.velocity =
                          add(body.velocity,
                              mulScalar(Vec(NumDiv(body.accumulatedForce.x, body.mass),
                                            NumDiv(body.accumulatedForce.y, body.mass),
                                            NumDiv(body.accumulatedForce.z, body.mass)),
                                        dt)),
                      !.accumulatedForce = ZeroVec],
          position |-> add(position, mulScalar(body.velocity, dt))]

\* integrate mutates the body and the position object it is handed.
integrate(body, position, dt) ==
    IF NumLe(dt, Zero) THEN [body |-> body, position |-> position]
    ELSE LET ax == NumDiv(body.accumulatedForce.x, body.mass)
             ay == NumDiv(body.accumulatedForce.y, body.mass)
             az == NumDiv(body.accumulatedForce.z, body.mass)
             velocity == Vec(NumAdd(body.velocity.x, NumMul(ax, dt)),
                             NumAdd(body.velocity.y, NumMul(ay, dt)),
                             NumAdd(body.velocity.z, NumMul(az, dt)))
             pos == Vec(NumAdd(position.x, NumMul(velocity.x, dt)),
                        NumAdd(position.y, NumMul(velocity.y, dt)),
                        NumAdd(position.z, NumMul(velocity.z, dt)))
         IN  [body |-> [body EXCEPT !.velocity = velocity,
                                    !.accumulatedForce = ZeroVec],
              position |-> pos]

-----------------------------------------------------------------------------
(* Meshes: transform.position and userData.physics = { body, collider } *)

Mesh(position, physics) == [position |-> position, physics |-> physics]

\* A null entry of the list.
Null == [null |-> TRUE]

Physics(body, collider) == [body |-> body, collider |-> collider]

\* !p || !p.body is false
hasBody(m) == m # Null /\ m.physics # Undefined /\ m.physics.body # Undefined

\* !p || !p.collider is false
hasCollider(m) ==
    m # Null /\ m.physics # Undefined /\ m.physics.collider # Undefined

\* Fault variant of attachPhysics: a call without a collider keeps the collider
\* of the earlier attachment.
attachPhysicsKeepsCollider(mesh, body, collider) ==
    [mesh EXCEPT !.physics =
        Physics(body, IF collider = Undefined /\ mesh.physics # Undefined
                      THEN mesh.physics.collider ELSE collider)]

attachPhysics(mesh, body, collider) ==
    [mesh EXCEPT !.physics = Physics(body, collider)]

-----------------------------------------------------------------------------
(* stepPhysics *)

restitution == Rat(1, 2)
Nudge == Rat(1, 1000)
Half == Rat(1, 2)

\* p.body.integrate(m.transform.position, dt)
integrateMesh(m, dt) ==
    LET r == integrate(m.physics.body, m.position, dt)
    IN  [m EXCEPT !.position = r.position, !.physics.body = r.body]

\* Phase 1, the first loop: meshes k..Len(ms) in list order.
RECURSIVE integrateFrom(_, _, _)
integrateFrom(ms, k, dt) ==
    IF k > Len(ms) THEN ms
    ELSE integrateFrom(IF hasBody(ms[k])
                       THEN [ms EXCEPT ![k] = integrateMesh(ms[k], dt)]
                       ELSE ms,
                       k + 1, dt)

\* Fault variant of overlaps: touching spheres count as overlapping.
overlapsOrTouches(dist, minDist) == NumLe(dist, minDist)

\* dist < minDist: the pair overlaps
overlaps(dist, minDist) == NumLt(dist, minDist)

\* dist is falsy (0 or NaN): dist || 1 is 1
falsy(dist) == NumEq(dist, Zero) \/ dist.k = "nan"

\* Fault variant of OrOne: the divisor is dist itself, whatever it is.
OrOneNever(dist) == dist

\* dist || 1
OrOne(dist) == IF falsy(dist) THEN One ELSE dist

\* if (dist === 0) { delta.x = 0.001; ... }: delta as the test goes on with it
nudged(delta, dist) ==
    IF NumEq(dist, Zero) THEN Vec(Nudge, Nudge, Nudge) ELSE delta

\* The nudge of a zero delta, then normal = mulScalar(delta, 1 / (dist || 1))
contactNormal(delta, dist) ==
    mulScalar(nudged(delta, dist), NumDiv(One, OrOne(dist)))

\* Fault variant of correctionOf: the whole penetration instead of half of it.
correctionWhole(normal, dist, minDist) == mulScalar(normal, NumSub(minDist, dist))

\* penetration = minDist - dist; correction = mulScalar(normal, penetration * 0.5)
correctionOf(normal, dist, minDist) ==
    mulScalar(normal, NumMul(NumSub(minDist, dist), Half))

\* pa.body.mass > 0 ? 1 / pa.body.mass : 0
invMass(mass) == IF NumGt(mass, Zero) THEN NumDiv(One, mass) ELSE Zero

\* The dot product written out at relAlongNormal.
dot(a, b) == NumAdd(NumAdd(NumMul(a.x, b.x), NumMul(a.y, b.y)), NumMul(a.z, b.z))

\* Fault variant of separating: the impulse is never skipped.
neverSeparating(relAlongNormal) == FALSE

\* if (relAlongNormal > 0) continue
separating(relAlongNormal) == NumGt(relAlongNormal, Zero)

\* Fault variant of impulseScalar: the restitution is left out.
impulseScalarInelastic(relAlongNormal, invMassA, invMassB) ==
    NumDiv(NumNeg(relAlongNormal), NumAdd(invMassA, invMassB))

\* j = (-(1 + restitution) * relAlongNormal) / (invMassA + invMassB)
impulseScalar(relAlongNormal, invMassA, invMassB) ==
    NumDiv(NumMul(NumNeg(NumAdd(One, restitution)), relAlongNormal),
           NumAdd(invMassA, invMassB))

\* Fault variant of applyImpulse: both velocities are changed with A's inverse
\* mass.
applyImpulseOneMass(va, vb, impulse, invMassA, invMassB) ==
    [va |-> sub(va, mulScalar(impulse, invMassA)),
     vb |-> add(vb, mulScalar(impulse, invMassA))]

\* The two velocities after the impulse is applied.
applyImpulse(va, vb, impulse, invMassA, invMassB) ==
    [va |-> sub(va, mulScalar(impulse, invMassA)),
     vb |-> add(vb, mulScalar(impulse, invMassB))]

\* The velocity resolution of a pair of bodies, given relAlongNormal.
resolveVelocity(bodyA, bodyB, normal, relAlongNormal) ==
    IF separating(relAlongNormal)
    THEN [va |-> bodyA.velocity, vb |-> bodyB.velocity]
    ELSE applyImpulse(bodyA.velocity, bodyB.velocity,
                      mulScalar(normal,
                                impulseScalar(relAlongNormal, invMass(bodyA.mass),
                                              invMass(bodyB.mass))),
                      invMass(bodyA.mass), invMass(bodyB.mass))

\* if (pa.body && pb.body) { ... }: the meshes with their new velocities.
velocityPhase(A, B, normal) ==
    IF A.physics.body # Undefined /\ B.physics.body # Undefined
    THEN [A |-> [A EXCEPT !.physics.body.velocity =
                     resolveVelocity(A.physics.body, B.physics.body, normal,
                         dot(sub(B.physics.body.velocity, A.physics.body.velocity),
                             normal)).va],
          B |-> [B EXCEPT !.physics.body.velocity =
                     resolveVelocity(A.physics.body, B.physics.body, normal,
                         dot(sub(B.physics.body.velocity, A.physics.body.velocity),
                             normal)).vb]]
    ELSE [A |-> A, B |-> B]

\* Fault variant of correctPositions: a mesh without a body stays where it is.
correctPositionsOfBodies(A, B, correction) ==
    [A |-> IF A.physics.body = Undefined THEN A
           ELSE [A EXCEPT !.position = sub(A.position, correction)],
     B |-> IF B.physics.body = Undefined THEN B
           ELSE [B EXCEPT !.position = add(B.position, correction)]]

\* The positional correction of an overlapping pair.
correctPositions(A, B, correction) ==
    [A |-> [A EXCEPT !.position = add(A.position, mulScalar(correction, NumNeg(One)))],
     B |-> [B EXCEPT !.position = add(B.position, correction)]]

\* if (dist < minDist) { ... }
resolveOverlap(A, B, normal, dist, minDist) ==
    IF overlaps(dist, minDist)
    THEN velocityPhase(correctPositions(A, B, correctionOf(normal, dist, minDist)).A,
                       correctPositions(A, B, correctionOf(normal, dist, minDist)).B,
                       normal)
    ELSE [A |-> A, B |-> B]

\* The test of a pair from its world centers on.
testPair(A, B, delta, dist, minDist) ==
    [after |-> resolveOverlap(A, B, contactNormal(delta, dist), dist, minDist),
     dist |-> dist, minDist |-> minDist,
     delta |-> nudged(delta, dist),
     normal |-> IF overlaps(dist, minDist) THEN contactNormal(delta, dist)
                ELSE Undefined,
     fallback |-> overlaps(dist, minDist) /\ falsy(dist)]

worldCenter(m) == add(m.position, m.physics.collider.offset)

\* The body of the inner loop for meshes that both have a collider: the two
\* meshes afterwards, with the dist and minDist the test computed.
resolvePair(A, B) ==
    testPair(A, B, sub(worldCenter(B), worldCenter(A)),
             length(sub(worldCenter(B), worldCenter(A))),
             NumAdd(A.physics.collider.radius, B.physics.collider.radius))

\* The state after the pair (i, j) is resolved with outcome r; the history
\* keeps the two meshes before and after, the dist and minDist of the test,
\* delta after the nudge and, for an overlapping pair, the normal and whether
\* its divisor was the 1 of dist || 1.
recordPair(st, i, j, r) ==
    [meshes |-> [st.meshes EXCEPT ![i] = r.after.A, ![j] = r.after.B],
     integrated |-> st.integrated,
     pairs |-> Append(st.pairs,
                      [i |-> i, j |-> j, A |-> st.meshes[i], B |-> st.meshes[j],
                       A2 |-> r.after.A, B2 |-> r.after.B,
                       dist |-> r.dist, minDist |-> r.minDist,
                       delta |-> r.delta, normal |-> r.normal,
                       fallback |-> r.fallback])]

\* One iteration of the inner loop; st = [meshes, integrated, pairs].
visitPair(st, i, j) ==
    IF j <= Len(st.meshes) /\ hasCollider(st.meshes[i]) /\ hasCollider(st.meshes[j])
    THEN recordPair(st, i, j, resolvePair(st.meshes[i], st.meshes[j]))
    ELSE st

\* Fault variant of rowDone: the inner loop stops one entry short of the end
\* of the list.
rowDoneBeforeLast(ms, i, j) == j >= Len(ms) - 1 \/ ~hasCollider(ms[i])

\* The inner loop ends (or is never entered: A has no collider).
rowDone(ms, i, j) == j > Len(ms) \/ ~hasCollider(ms[i])

\* Phase 2, the nested loops from (i, j) on.
RECURSIVE collideFrom(_, _, _)
collideFrom(st, i, j) ==
    IF i > Len(st.meshes) THEN st
    ELSE collideFrom(visitPair(st, i, j),
                     IF rowDone(st.meshes, i, j) THEN i + 1 ELSE i,
                     IF rowDone(st.meshes, i, j) THEN i + 2 ELSE j + 1)

\* The collision phase starts from the integrated meshes with no pair tested.
afterIntegration(integrated) ==
    [meshes |-> integrated, integrated |-> integrated, pairs |-> <<>>]

\* Fault variant of stepPhysics: a call with dt <= 0 returns at once.
stepPhysicsChecksDt(ms, dt) ==
    IF NumLe(dt, Zero) THEN afterIntegration(ms)
    ELSE collideFrom(afterIntegration(integrateFrom(ms, 1, dt)), 1, 2)

\* Fault variant of stepPhysics: the pairs are tested before the bodies are
\* integrated.
stepPhysicsCollideFirst(ms, dt) ==
    [meshes |-> integrateFrom(collideFrom(afterIntegration(ms), 1, 2).meshes, 1, dt),
     integrated |-> ms,
     pairs |-> collideFrom(afterIntegration(ms), 1, 2).pairs]

\* The result: the meshes afterwards, with the state between the two phases
\* and the tested pairs for the history.
stepPhysics(ms, dt) == collideFrom(afterIntegration(integrateFrom(ms, 1, dt)), 1, 2)

-----------------------------------------------------------------------------
(* The values the operations are tried on *)

Q(n, d) == Rat(n, d)
V3(a, b, c) == Vec(Q(a, 1), Q(b, 1), Q(c, 1))

Dts == {Q(-1, 1), Q(0, 1), Q(1, 2)}

Forces == {V3(1, 0, 0), Vec(Q(0, 1), Q(-3, 2), Q(0, 1))}

\* A body driven on its own is also handed the zero force.
BodyForces == Forces \cup {ZeroVec}

Ball == SphereCollider(Q(1, 1), ZeroVec)
SmallBall == SphereCollider(Q(1, 2), Vec(Q(-1, 2), Q(0, 1), Q(0, 1)))

Layouts ==
    { <<V3(0, 0, 0), Vec(Q(3, 2), Q(0, 1), Q(0, 1)), V3(3, 0, 0)>>,
      <<V3(0, 0, 0), Vec(Q(9, 10), Q(6, 5), Q(0, 1)), V3(10, 0, 0)>>,
      <<V3(0, 0, 0), V3(0, 0, 0), V3(10, 0, 0)>>,
      <<V3(0, 0, 0), V3(2, 0, 0), V3(10, 0, 0)>> }

FirstPhysics ==
    { Physics(SimplePhysicsBody(Q(1, 1), ZeroVec), Ball),
      Physics(SimplePhysicsBody(Q(2, 1), V3(1, 0, 0)), Ball),
      Physics(SimplePhysicsBody(Q(0, 1), ZeroVec), Ball),
      Physics(SimplePhysicsBody(Q(-1, 1), V3(1, 0, 0)), Ball),
      Physics(Undefined, Ball) }

SecondPhysics ==
    { Physics(SimplePhysicsBody(Q(1, 1), ZeroVec), Ball),
      Physics(SimplePhysicsBody(Q(1, 1), V3(-1, 0, 0)), Ball),
      Physics(SimplePhysicsBody(Q(1, 1), V3(2, 0, 0)), Ball),
      Physics(SimplePhysicsBody(Q(0, 1), V3(-1, 0, 0)), Ball),
      Physics(SimplePhysicsBody(Q(2, 1), V3(-1, 0, 0)), SmallBall),
      Physics(Undefined, Ball) }

ThirdPhysics ==
    { Physics(SimplePhysicsBody(Q(1, 1), V3(-1, 0, 0)), Ball),
      Physics(Undefined, Ball) }

\* What attachPhysics is called with.
Attachments ==
    { Physics(SimplePhysicsBody(Q(1, 1), ZeroVec), Undefined),
      Physics(Undefined, Ball) }

\* Two meshes with physics and a third without, in every layout.
PairScenes ==
    { <<Mesh(l[1], a), Mesh(l[2], b), Mesh(l[3], Undefined)>> :
        l \in Layouts, a \in FirstPhysics, b \in SecondPhysics }

\* Three meshes with colliders on one line, and a null entry among them.
TripleScenes ==
    { <<Mesh(V3(0, 0, 0), a), Mesh(Vec(Q(3, 2), Q(0, 1), Q(0, 1)), b), Null,
        Mesh(V3(3, 0, 0), c)>> :
        a \in {Physics(SimplePhysicsBody(Q(1, 1), ZeroVec), Ball),
               Physics(Undefined, Ball)},
        b \in {Physics(SimplePhysicsBody(Q(1, 1), V3(-1, 0, 0)), Ball),
               Physics(SimplePhysicsBody(Q(1, 1), ZeroVec), Ball)},
        c \in ThirdPhysics }

Scenes == PairScenes \cup TripleScenes

\* One body on its own, for the sequences of applyForce and integrate.
BodyScenes ==
    { <<Mesh(V3(0, 0, 0), Physics(SimplePhysicsBody(m, v), Undefined))>> :
        m \in {Q(1, 1), Q(2, 1), Q(0, 1), Q(-1, 1)},
        v \in {ZeroVec, V3(1, 0, 0)} }

-----------------------------------------------------------------------------
(* Scene: the fields of the animation loop, with the browser's side of it:   *)
(* now is performance.now() counted in frames, frameRequests the number of   *)
(* this.animate callbacks that requestAnimationFrame holds for the next      *)
(* frame, ran the number of times the registered callbacks were run since    *)
(* the last frame began                                                      *)

NewScene ==
    [animationCallbacks |-> 0, isAnimating |-> FALSE, lastTime |-> 0,
     now |-> 0, frameRequests |-> 0, ran |-> 0]

-----------------------------------------------------------------------------
(* History *)

NoOp == [op |-> "new", i |-> 0, dt |-> Zero]

\* The operation just performed; prev names the one before it.
Op(name, i, dt, force, before, integrated, pairs, prev) ==
    [op |-> name, i |-> i, dt |-> dt, force |-> force, before |-> before,
     integrated |-> integrated, pairs |-> pairs,
     prev |-> [op |-> prev.op, i |-> prev.i, dt |-> prev.dt]]

\* No number of the meshes or of the tested pairs is outside the number model.
MeshExact(m) ==
    /\ m # Null => ~UnrepVec(m.position)
    /\ hasBody(m) => /\ ~UnrepVec(m.physics.body.velocity)
                     /\ ~UnrepVec(m.physics.body.accumulatedForce)

Exact(ms, pairs) ==
    /\ \A k \in 1..Len(ms) : MeshExact(ms[k])
    /\ \A k \in 1..Len(pairs) :
         /\ pairs[k].dist.k # "unrep"
         /\ pairs[k].minDist.k # "unrep"
         /\ MeshExact(pairs[k].A2)
         /\ MeshExact(pairs[k].B2)

-----------------------------------------------------------------------------
(* The operations *)

Init ==
    /\ meshes \in Scenes
    /\ last = Op("new", 0, Zero, ZeroVec, meshes, meshes, <<>>, NoOp)
    /\ applied = [k \in 1..Len(meshes) |-> <<>>]
    /\ attached = [k \in 1..Len(meshes) |->
                     IF meshes[k] = Null THEN Undefined ELSE meshes[k].physics]
    /\ scene = NewScene
    /\ nOps = 0

InitBody ==
    /\ meshes \in BodyScenes
    /\ last = Op("new", 0, Zero, ZeroVec, meshes, meshes, <<>>, NoOp)
    /\ applied = [k \in 1..Len(meshes) |-> <<>>]
    /\ attached = [k \in 1..Len(meshes) |-> meshes[k].physics]
    /\ scene = NewScene
    /\ nOps = 0

\* meshes[i].userData.physics.body.applyForce(f)
ApplyForce(i, f) ==
    /\ hasBody(meshes[i])
    /\ meshes' = [meshes EXCEPT ![i].physics.body = applyForce(@, f)]
    /\ Exact(meshes', <<>>)
    /\ last' = Op("applyForce", i, Zero, f, meshes, meshes', <<>>, last)
    /\ applied' = [applied EXCEPT ![i] = Append(@, f)]
    /\ nOps' = nOps + 1
    /\ UNCHANGED <<attached, scene>>

\* meshes[i].userData.physics.body.integrate(meshes[i].transform.position, dt)
Integrate(i, dt) ==
    /\ hasBody(meshes[i])
    /\ meshes' = [meshes EXCEPT ![i] = integrateMesh(@, dt)]
    /\ Exact(meshes', <<>>)
    /\ last' = Op("integrate", i, dt, ZeroVec, meshes, meshes', <<>>, last)
    /\ applied' = [applied EXCEPT ![i] = IF dt.n > 0 THEN <<>> ELSE @]
    /\ nOps' = nOps + 1
    /\ UNCHANGED <<attached, scene>>

\* attachPhysics(meshes[i], body, collider) with a new body and collider; on a
\* null entry the call throws at mesh.userData and changes nothing.
AttachPhysics(i, p) ==
    /\ meshes[i] # Null
    /\ attached' = [attached EXCEPT ![i] = p]
    /\ UNCHANGED scene
    /\ meshes' = [meshes EXCEPT ![i] = attachPhysics(@, p.body, p.collider)]
    /\ last' = Op("attachPhysics", i, Zero, ZeroVec, meshes, meshes', <<>>, last)
    /\ applied' = [applied EXCEPT ![i] = <<>>]
    /\ nOps' = nOps + 1

\* stepPhysics(meshes, dt), r being what the call computes
Stepped(dt, r) ==
    /\ Exact(r.meshes, r.pairs)
    /\ Exact(r.integrated, <<>>)
    /\ meshes' = r.meshes
    /\ last' = Op("stepPhysics", 0, dt, ZeroVec, meshes, r.integrated, r.pairs, last)
    /\ applied' = [k \in 1..Len(meshes) |->
                     IF hasBody(meshes[k]) /\ dt.n > 0 THEN <<>> ELSE applied[k]]
    /\ nOps' = nOps + 1
    /\ UNCHANGED <<attached, scene>>

StepPhysics(dt) == Stepped(dt, stepPhysics(meshes, dt))

\* A scene stepped by stepPhysics.
Next ==
    \/ \E i \in 1..Len(meshes), f \in Forces : nOps < MaxOps /\ ApplyForce(i, f)
    \/ \E i \in 1..Len(meshes), dt \in Dts : nOps < MaxOps /\ Integrate(i, dt)
    \/ \E i \in 1..Len(meshes), p \in Attachments : nOps < MaxOps /\ AttachPhysics(i, p)
    \/ \E dt \in Dts : nOps < MaxOps /\ StepPhysics(dt)

\* One body driven directly through applyForce and integrate.
NextBody ==
    \/ \E i \in 1..Len(meshes), f \in BodyForces : nOps < MaxBodyOps /\ ApplyForce(i, f)
    \/ \E i \in 1..Len(meshes), dt \in Dts : nOps < MaxBodyOps /\ Integrate(i, dt)

Spec == Init /\ [][Next]_vars

SpecBody == InitBody /\ [][NextBody]_vars

-----------------------------------------------------------------------------
(* Properties of SimplePhysicsBody, under SpecBody *)

Two == Q(2, 1)

RECURSIVE SumForces(_)
SumForces(fs) ==
    IF fs = <<>> THEN ZeroVec ELSE add(SumForces(SubSeq(fs, 1, Len(fs) - 1)), fs[Len(fs)])

\* The body last operated on, before and after the operation.
BodyBefore == last.before[last.i].physics.body
BodyAfter == meshes[last.i].physics.body

\* C1: an integrate call with dt <= 0 leaves velocity, position and pending
\* force as they were, and the pending force of every body is at all times the
\* component-wise sum of the forces applied since the last integrate call that
\* had dt > 0.
C1_PendingForce ==
    /\ \A k \in 1..Len(meshes) :
         hasBody(meshes[k]) =>
            meshes[k].physics.body.accumulatedForce = SumForces(applied[k])
    /\ (last.op = "integrate" /\ last.dt.n <= 0) => meshes = last.before

\* Two forces are pending, the last call was an integrate with dt <= 0, and an
\* integrate with dt > 0 came before them.
C1_Witness ==
    /\ last.op = "integrate" /\ last.dt.n <= 0
    /\ Len(applied[1]) = 2
    /\ applied[1][1] # applied[1][2]
    /\ BodyAfter.accumulatedForce = Vec(Q(1, 1), Q(-3, 2), Q(0, 1))
    /\ FiniteVec(meshes[1].position) /\ meshes[1].position # ZeroVec

\* C2: with mass > 0 and dt > 0, integrate on a body at rest sets the velocity
\* to (F / m) * dt, advances the position by the new velocity times dt and
\* resets the pending force; an integrate that follows with no force pending
\* leaves the velocity as it is.
C2_SemiImplicitEuler ==
    (last.op = "integrate" /\ last.dt.n > 0 /\ BodyBefore.mass.n > 0) =>
        LET F == BodyBefore.accumulatedForce
            m == BodyBefore.mass
            v == mulScalar(Vec(NumDiv(F.x, m), NumDiv(F.y, m), NumDiv(F.z, m)), last.dt)
        IN  /\ BodyAfter.accumulatedForce = ZeroVec
            /\ BodyBefore.velocity = ZeroVec =>
                  /\ BodyAfter.velocity = v
                  /\ meshes[last.i].position =
                        add(last.before[last.i].position, mulScalar(v, last.dt))
            /\ (F = ZeroVec \/ (last.prev.op = "integrate" /\ last.prev.dt.n > 0)) =>
                  BodyAfter.velocity = BodyBefore.velocity

\* A body of mass 2 at rest with the force (1, -3/2, 0) pending was integrated
\* with dt = 1/2: velocity (1/4, -3/8, 0), position (1/8, -3/16, 0).
C2_Witness ==
    /\ last.op = "integrate" /\ last.dt = Q(1, 2)
    /\ BodyBefore.mass = Two
    /\ BodyBefore.velocity = ZeroVec
    /\ BodyBefore.accumulatedForce = Vec(Q(1, 1), Q(-3, 2), Q(0, 1))
    /\ BodyAfter.velocity = Vec(Q(1, 4), Q(-3, 8), Q(0, 1))
    /\ meshes[1].position = Vec(Q(1, 8), Q(-3, 16), Q(0, 1))

-----------------------------------------------------------------------------
(* Properties of the collision phase, under Spec: the pairs the last         *)
(* stepPhysics call tested, each with its two meshes before (A, B) and       *)
(* after (A2, B2) the test                                                   *)

Tested == {last.pairs[n] : n \in 1..Len(last.pairs)}

CenterA(p) == add(p.A.position, p.A.physics.collider.offset)
CenterB(p) == add(p.B.position, p.B.physics.collider.offset)
Delta(p) == sub(CenterB(p), CenterA(p))
Dist(p) == length(Delta(p))
MinDist(p) == NumAdd(p.A.physics.collider.radius, p.B.physics.collider.radius)
Overlapping(p) == NumLt(Dist(p), MinDist(p))
HalfPenetration(p) == NumDiv(NumSub(MinDist(p), Dist(p)), Two)

\* The unit vector from A's center to B's center.
UnitNormal(p) ==
    Vec(NumDiv(Delta(p).x, Dist(p)), NumDiv(Delta(p).y, Dist(p)),
        NumDiv(Delta(p).z, Dist(p)))

\* The normal of the resolution: 0.001 on each axis when the centers coincide.
Normal(p) ==
    IF NumEq(Dist(p), Zero) THEN Vec(Nudge, Nudge, Nudge) ELSE UnitNormal(p)

BothBodies(p) == p.A.physics.body # Undefined /\ p.B.physics.body # Undefined
OneBody(p) == (p.A.physics.body = Undefined) # (p.B.physics.body = Undefined)
VelA(p) == p.A.physics.body.velocity
VelB(p) == p.B.physics.body.velocity
MassA(p) == p.A.physics.body.mass
MassB(p) == p.B.physics.body.mass
RelAlongNormal(p) ==
    LET rel == sub(VelB(p), VelA(p))
        n == Normal(p)
    IN  NumAdd(NumAdd(NumMul(rel.x, n.x), NumMul(rel.y, n.y)), NumMul(rel.z, n.z))

\* Each mesh is moved half the penetration along v, A against it and B with it.
MovedApartAlong(p, v) ==
    /\ p.A2.position = sub(p.A.position, mulScalar(v, HalfPenetration(p)))
    /\ p.B2.position = add(p.B.position, mulScalar(v, HalfPenetration(p)))

VelocitiesKept(p) == p.A2.physics = p.A.physics /\ p.B2.physics = p.B.physics

\* C3: a tested pair whose centers are at distance dist >= radiusA + radiusB,
\* the touching case dist = minDist included, has neither position nor
\* velocity changed.
C3_ApartUnchanged ==
    \A p \in Tested : NumGe(Dist(p), MinDist(p)) => p.A2 = p.A /\ p.B2 = p.B

\* Two bodies that touch exactly (dist = minDist, one collider with an offset)
\* and approach each other were tested.
C3_Witness ==
    \E p \in Tested :
        /\ NumEq(Dist(p), MinDist(p))
        /\ p.B.physics.collider.offset # ZeroVec
        /\ BothBodies(p)
        /\ NumLt(RelAlongNormal(p), Zero)

\* C4: for 0 < dist < minDist, A is moved by -normal * (minDist - dist) / 2 and
\* B by +normal * (minDist - dist) / 2, normal being the unit vector from A's
\* center to B's, whatever the masses and with or without bodies.
C4_HalfPenetrationEach ==
    \A p \in Tested :
        (NumGt(Dist(p), Zero) /\ Overlapping(p)) => MovedApartAlong(p, UnitNormal(p))

\* A at x = 0 with mass 2 and B at x = 3/2 with mass 1, radii 1: A ends at
\* x = -1/4 and B at x = 7/4.
C4_Witness ==
    \E p \in Tested :
        /\ BothBodies(p) /\ MassA(p) = Two /\ MassB(p) = One
        /\ CenterA(p) = ZeroVec /\ CenterB(p) = Vec(Q(3, 2), Zero, Zero)
        /\ MinDist(p) = Two
        /\ p.A2.position = Vec(Q(-1, 4), Zero, Zero)
        /\ p.B2.position = Vec(Q(7, 4), Zero, Zero)

\* The impulse scalar j = -(1 + 0.5) * relAlongNormal / (1/mA + 1/mB).
ImpulseJ(p) ==
    NumDiv(NumMul(NumNeg(NumAdd(One, Q(1, 2))), RelAlongNormal(p)),
           NumAdd(NumDiv(One, MassA(p)), NumDiv(One, MassB(p))))

\* normal * j / m
ImpulseOver(p, m) ==
    Vec(NumDiv(NumMul(Normal(p).x, ImpulseJ(p)), m),
        NumDiv(NumMul(Normal(p).y, ImpulseJ(p)), m),
        NumDiv(NumMul(Normal(p).z, ImpulseJ(p)), m))

\* C5: an overlapping pair of bodies with masses > 0 that is not separating
\* (relAlongNormal <= 0) gets vA - normal * j / mA and vB + normal * j / mB.
C5_Impulse ==
    \A p \in Tested :
        (/\ Overlapping(p) /\ BothBodies(p)
         /\ NumGt(MassA(p), Zero) /\ NumGt(MassB(p), Zero)
         /\ NumLe(RelAlongNormal(p), Zero)) =>
            /\ p.A2.physics.body.velocity = sub(VelA(p), ImpulseOver(p, MassA(p)))
            /\ p.B2.physics.body.velocity = add(VelB(p), ImpulseOver(p, MassB(p)))

\* Masses 1, vA = 0 and vB = (-1, 0, 0) along the axis: vA becomes -3/4 and vB
\* becomes -1/4.
C5_Witness ==
    \E p \in Tested :
        /\ Overlapping(p) /\ BothBodies(p)
        /\ MassA(p) = One /\ MassB(p) = One
        /\ VelA(p) = ZeroVec /\ VelB(p) = V3(-1, 0, 0)
        /\ Normal(p) = V3(1, 0, 0)
        /\ p.A2.physics.body.velocity = Vec(Q(-3, 4), Zero, Zero)
        /\ p.B2.physics.body.velocity = Vec(Q(-1, 4), Zero, Zero)

\* C6: an overlapping pair of bodies that is already separating
\* (relAlongNormal > 0) has both positions corrected and both velocities kept.
C6_SeparatingKeepsVelocity ==
    \A p \in Tested :
        (Overlapping(p) /\ BothBodies(p) /\ NumGt(RelAlongNormal(p), Zero)) =>
            /\ MovedApartAlong(p, Normal(p))
            /\ VelocitiesKept(p)

\* A separating overlapping pair was tested and both meshes were moved.
C6_Witness ==
    \E p \in Tested :
        /\ Overlapping(p) /\ BothBodies(p) /\ NumGt(RelAlongNormal(p), Zero)
        /\ p.A2.position # p.A.position /\ p.B2.position # p.B.position

\* C7 as stated: a collider-only mesh overlapping a mesh with body and collider
\* has both positions corrected by half the penetration each, and no velocity
\* is changed.
C7_AsStated ==
    \A p \in Tested :
        (Overlapping(p) /\ OneBody(p)) =>
            MovedApartAlong(p, UnitNormal(p)) /\ VelocitiesKept(p)

\* C7 as amended: no velocity is changed, and when the two centers do not
\* coincide (dist > 0) both positions are corrected by half the penetration
\* each.
C7_StaticObstacle ==
    \A p \in Tested :
        (Overlapping(p) /\ OneBody(p)) =>
            /\ VelocitiesKept(p)
            /\ NumGt(Dist(p), Zero) => MovedApartAlong(p, UnitNormal(p))

\* A collider-only mesh and a moving body overlap with 0 < dist, and both were
\* moved.
C7_Witness ==
    \E p \in Tested :
        /\ Overlapping(p) /\ NumGt(Dist(p), Zero)
        /\ p.A.physics.body = Undefined /\ p.B.physics.body # Undefined
        /\ VelB(p) = V3(-1, 0, 0)
        /\ p.A2.position # p.A.position /\ p.B2.position # p.B.position

\* C8: when both bodies of an overlapping, not separating pair have mass <= 0,
\* both velocities keep their finite values.
C8_NoDivisionFault ==
    \A p \in Tested :
        (/\ Overlapping(p) /\ BothBodies(p)
         /\ NumLe(MassA(p), Zero) /\ NumLe(MassB(p), Zero)
         /\ FiniteVec(VelA(p)) /\ FiniteVec(VelB(p))
         /\ NumLe(RelAlongNormal(p), Zero)) =>
            /\ p.A2.physics.body.velocity = VelA(p)
            /\ p.B2.physics.body.velocity = VelB(p)

\* The bodies with mass > 0 are the only ones mesh k overlapped in the call.
HitOnlyMassive(k) ==
    \A p \in Tested :
        (Overlapping(p) /\ BothBodies(p)) =>
            /\ p.i = k => NumGt(MassB(p), Zero)
            /\ p.j = k => NumGt(MassA(p), Zero)

\* C9: a body with mass <= 0 that has no force pending and a finite velocity,
\* and that overlaps only bodies with mass > 0, keeps its velocity through a
\* stepPhysics call.
C9_InfiniteMassUnmoved ==
    last.op = "stepPhysics" =>
        \A k \in 1..Len(meshes) :
            (/\ hasBody(last.before[k])
             /\ NumLe(last.before[k].physics.body.mass, Zero)
             /\ last.before[k].physics.body.accumulatedForce = ZeroVec
             /\ FiniteVec(last.before[k].physics.body.velocity)
             /\ HitOnlyMassive(k)) =>
                meshes[k].physics.body.velocity = last.before[k].physics.body.velocity

\* Mesh k as the first n tested pairs left it, starting from ms.
RECURSIVE MeshAfterPairs(_, _, _)
MeshAfterPairs(ms, n, k) ==
    IF n = 0 THEN ms[k]
    ELSE IF last.pairs[n].i = k THEN last.pairs[n].A2
    ELSE IF last.pairs[n].j = k THEN last.pairs[n].B2
    ELSE MeshAfterPairs(ms, n - 1, k)

\* Every body of the list integrated with dt, the other meshes as they were.
AllIntegrated(ms, dt) ==
    [k \in 1..Len(ms) |-> IF hasBody(ms[k]) THEN integrateMesh(ms[k], dt) ELSE ms[k]]

\* C10: in a stepPhysics call every body is integrated before the first pair
\* is tested: each test reads the integrated meshes (as the earlier tests left
\* them), and the call ends with what the tests made of them.
C10_IntegrateThenCollide ==
    last.op = "stepPhysics" =>
        /\ last.integrated = AllIntegrated(last.before, last.dt)
        /\ \A n \in 1..Len(last.pairs) :
             /\ last.pairs[n].A = MeshAfterPairs(last.integrated, n - 1, last.pairs[n].i)
             /\ last.pairs[n].B = MeshAfterPairs(last.integrated, n - 1, last.pairs[n].j)
        /\ \A k \in 1..Len(meshes) :
             meshes[k] = MeshAfterPairs(last.integrated, Len(last.pairs), k)

\* A call with dt > 0 moved both meshes of the first tested pair before the
\* test, and the test found them overlapping.
C10_Witness ==
    /\ last.op = "stepPhysics" /\ last.dt.n > 0
    /\ Len(last.pairs) >= 1
    /\ Overlapping(last.pairs[1])
    /\ last.pairs[1].A.position # last.before[last.pairs[1].i].position
    /\ last.pairs[1].B.position # last.before[last.pairs[1].j].position

-----------------------------------------------------------------------------
(* Attachments and participation, under Spec *)

\* The most recent attachPhysics call on mesh k gave it a body / a collider.
BodyAttached(k) == attached[k] # Undefined /\ attached[k].body # Undefined
ColliderAttached(k) == attached[k] # Undefined /\ attached[k].collider # Undefined

\* Mesh k was one of the two meshes of a pair test of the last call.
InTestedPair(k) == \E p \in Tested : p.i = k \/ p.j = k

\* C11: the attachment of a mesh is the body and collider of the most recent
\* attachPhysics call on it (a call without a collider removes the earlier
\* collider); in a stepPhysics call a list entry with no attachment or no body,
\* or a null entry, is not integrated, and an entry with no collider is in no
\* pair test and leaves the collision phase as it entered it.
C11_CurrentAttachment ==
    /\ \A k \in 1..Len(meshes) :
         meshes[k] # Null =>
            /\ hasBody(meshes[k]) = BodyAttached(k)
            /\ hasCollider(meshes[k]) = ColliderAttached(k)
            /\ ColliderAttached(k) =>
                  meshes[k].physics.collider = attached[k].collider
    /\ last.op = "stepPhysics" =>
         \A k \in 1..Len(meshes) :
            /\ ~BodyAttached(k) => last.integrated[k] = last.before[k]
            /\ ~ColliderAttached(k) =>
                  ~InTestedPair(k) /\ meshes[k] = last.integrated[k]

\* Mesh 1, which had a collider and lies within reach of mesh 2's collider, was
\* re-attached with a body only and then stepped with dt > 0: it was in no
\* pair test.
C11_Witness ==
    /\ last.op = "stepPhysics" /\ last.dt.n > 0
    /\ last.prev.op = "attachPhysics" /\ last.prev.i = 1
    /\ BodyAttached(1) /\ ~ColliderAttached(1)
    /\ hasCollider(meshes[2])
    /\ NumLt(length(sub(worldCenter(meshes[2]), meshes[1].position)), One)
    /\ ~InTestedPair(1)

-----------------------------------------------------------------------------
(* The order of the pair tests, under Spec *)

\* The tests of the last call that were made on the pair (i, j).
TestsOf(i, j) ==
    {n \in 1..Len(last.pairs) : last.pairs[n].i = i /\ last.pairs[n].j = j}

\* (i1, j1) comes before (i2, j2) in lexicographic order.
LexBefore(i1, j1, i2, j2) == i1 < i2 \/ (i1 = i2 /\ j1 < j2)

\* C12: a stepPhysics call tests every pair i < j of list entries that both
\* have a collider exactly once and tests nothing else, the tests come in
\* ascending lexicographic order of (i, j), and each test reads its two meshes
\* as the tests before it in the same call left them.
C12_PairOrder ==
    last.op = "stepPhysics" =>
        /\ \A i, j \in 1..Len(meshes) :
             Cardinality(TestsOf(i, j)) =
                IF i < j /\ hasCollider(last.before[i]) /\ hasCollider(last.before[j])
                THEN 1 ELSE 0
        /\ \A n, m \in 1..Len(last.pairs) :
             n < m => LexBefore(last.pairs[n].i, last.pairs[n].j,
                                last.pairs[m].i, last.pairs[m].j)
        /\ \A n \in 1..Len(last.pairs) :
             /\ last.pairs[n].A = MeshAfterPairs(last.integrated, n - 1, last.pairs[n].i)
             /\ last.pairs[n].B = MeshAfterPairs(last.integrated, n - 1, last.pairs[n].j)

\* Three pairs were tested in a list with a null entry, in the order (1, 2),
\* (1, 4), (2, 4); the third found mesh 2 where the first had moved it, and
\* found it overlapping mesh 4.
C12_Witness ==
    /\ last.op = "stepPhysics"
    /\ Len(last.pairs) = 3
    /\ <<last.pairs[1].i, last.pairs[1].j>> = <<1, 2>>
    /\ <<last.pairs[2].i, last.pairs[2].j>> = <<1, 4>>
    /\ <<last.pairs[3].i, last.pairs[3].j>> = <<2, 4>>
    /\ last.pairs[3].A.position # last.integrated[2].position
    /\ last.pairs[3].A.position = last.pairs[1].B2.position
    /\ Overlapping(last.pairs[3])

-----------------------------------------------------------------------------
(* The normal of an overlapping pair, under Spec *)

NudgeVec == Vec(Nudge, Nudge, Nudge)

\* v divided by its own length.
Normalized(v) == mulScalar(v, NumDiv(One, length(v)))

\* C13 as stated: the divide-by-1 fallback is never taken, and the normal of
\* every overlapping pair is delta, as nudged, divided by its own length.
C13_AsStated ==
    \A p \in Tested :
        Overlapping(p) => ~p.fallback /\ p.normal = Normalized(p.delta)

\* C13 as amended: when the centers coincide (dist = 0) delta is replaced by
\* (0.001, 0.001, 0.001), the divisor is the 1 of the fallback, since dist is
\* not computed again, and the normal is (0.001, 0.001, 0.001); when dist > 0
\* delta is untouched, the fallback is not taken and the normal is delta
\* divided by dist.
C13_NudgedNormal ==
    \A p \in Tested :
        Overlapping(p) =>
            /\ NumEq(Dist(p), Zero) =>
                  p.delta = NudgeVec /\ p.fallback /\ p.normal = NudgeVec
            /\ NumGt(Dist(p), Zero) =>
                  /\ p.delta = Delta(p)
                  /\ ~p.fallback
                  /\ p.normal = UnitNormal(p)
                  /\ p.normal = Normalized(p.delta)

\* Two meshes with coincident centers and radii 1 were tested: each moved by
\* 0.001 on every axis.
C13_Witness ==
    \E p \in Tested :
        /\ Overlapping(p) /\ NumEq(Dist(p), Zero)
        /\ MinDist(p) = Two
        /\ p.fallback
        /\ p.A2.position = sub(p.A.position, NudgeVec)
        /\ p.B2.position = add(p.B.position, NudgeVec)

-----------------------------------------------------------------------------
(* stepPhysics with dt <= 0, under Spec *)

\* The impulse changed the velocities of pair p as the formula says.
ImpulseApplied(p) ==
    /\ p.A2.physics.body.velocity = sub(VelA(p), ImpulseOver(p, MassA(p)))
    /\ p.B2.physics.body.velocity = add(VelB(p), ImpulseOver(p, MassB(p)))

\* C14: a stepPhysics call with dt <= 0 integrates nothing (after the first
\* phase every velocity, position and pending force is as before the call) and
\* still runs the whole collision phase: every pair of entries with colliders
\* is tested, every overlapping pair has its positions corrected, and an
\* overlapping, not separating pair of bodies with masses > 0 has its
\* velocities changed by the impulse; the call ends with these changes made.
C14_NonPositiveDtStillCollides ==
    (last.op = "stepPhysics" /\ NumLe(last.dt, Zero)) =>
        /\ last.integrated = last.before
        /\ \A i, j \in 1..Len(meshes) :
             (i < j /\ hasCollider(last.before[i]) /\ hasCollider(last.before[j])) =>
                TestsOf(i, j) # {}
        /\ \A p \in Tested :
             Overlapping(p) =>
                /\ MovedApartAlong(p, Normal(p))
                /\ (/\ BothBodies(p)
                    /\ NumGt(MassA(p), Zero) /\ NumGt(MassB(p), Zero)
                    /\ NumLe(RelAlongNormal(p), Zero)) => ImpulseApplied(p)
        /\ \A k \in 1..Len(meshes) :
             meshes[k] = MeshAfterPairs(last.before, Len(last.pairs), k)

\* A force was applied to a body and stepPhysics was then called with dt <= 0:
\* the force is still pending, and an overlapping pair of bodies was moved
\* apart and had both velocities changed.
C14_Witness ==
    /\ last.op = "stepPhysics" /\ NumLe(last.dt, Zero)
    /\ last.prev.op = "applyForce"
    /\ meshes[last.prev.i].physics.body.accumulatedForce # ZeroVec
    /\ \E p \in Tested :
         /\ Overlapping(p) /\ BothBodies(p)
         /\ p.A2.position # p.A.position /\ p.B2.position # p.B.position
         /\ FiniteVec(p.A2.physics.body.velocity)
         /\ p.A2.physics.body.velocity # VelA(p)
         /\ p.B2.physics.body.velocity # VelB(p)
         /\ meshes[p.i].position # last.before[p.i].position

-----------------------------------------------------------------------------
(* Rounded arithmetic.  The numbers above are exact; a JavaScript number is  *)
(* a binary floating-point number, and every operation rounds its exact      *)
(* result to the nearest number of the format, ties to the even significand. *)
(* The operations below do the same with a significand of MantissaBits bits  *)
(* (the exponent range is not modelled), and carry with each value whether   *)
(* any operation it was computed by had to round.                            *)

MantissaBits == 5   \* bits of the significand of a rounded number

RECURSIVE Pow2(_)
Pow2(k) == IF k = 0 THEN 1 ELSE 2 * Pow2(k - 1)

\* The e with 2^e <= n/d < 2^(e+1), for n, d > 0.
RECURSIVE Exp2(_, _)
Exp2(n, d) ==
    IF n >= 2 * d THEN Exp2(n, 2 * d) + 1
    ELSE IF n < d THEN Exp2(2 * n, d) - 1
    ELSE 0

\* n/d rounded to the nearest integer, a tie to the even one.
Nearest(n, d) ==
    (n \div d) + (IF 2 * (n % d) > d \/ (2 * (n % d) = d /\ (n \div d) % 2 = 1)
                  THEN 1 ELSE 0)

\* The number m * 2^u.
Scaled(m, u) == IF u >= 0 THEN Rat(m * Pow2(u), 1) ELSE Rat(m, Pow2(-u))

\* n/d > 0 rounded to a multiple of 2^u.
RoundAt(n, d, u) ==
    Scaled(IF u >= 0 THEN Nearest(n, d * Pow2(u)) ELSE Nearest(n * Pow2(-u), d), u)

\* The exact result a as the floating-point operation delivers it.
Round(a) ==
    IF a.k # "fin" \/ a.n = 0 THEN a
    ELSE IF a.n > 0 THEN RoundAt(a.n, a.d, Exp2(a.n, a.d) - (MantissaBits - 1))
    ELSE NumNeg(RoundAt(-a.n, a.d, Exp2(-a.n, a.d) - (MantissaBits - 1)))

\* The square root of n/d > 0 as a multiple of 2^u: r is the integer part of
\* sqrt(n/d) / 2^u, rounded up when the root lies above r + 1/2.
RootAt(n, d, u, r) ==
    Scaled(r + (IF 4 * n > (4 * r * r + 4 * r + 1) * d
                   \/ (4 * n = (4 * r * r + 4 * r + 1) * d /\ r % 2 = 1)
                THEN 1 ELSE 0), u)

\* n/d divided by 4^u, as numerator and denominator.
Over4(n, d, u) ==
    IF u >= 0 THEN [n |-> n, d |-> d * Pow2(2 * u)]
    ELSE [n |-> n * Pow2(-2 * u), d |-> d]

RootOf(q, u) == RootAt(q.n, q.d, u, RootIn(q.n \div q.d, 0, q.n \div q.d))

\* Math.sqrt, correctly rounded.
RoundSqrt(a) ==
    IF a.k \in {"unrep", "nan"} THEN a
    ELSE IF a.k = "inf" THEN (IF a.n = 1 THEN a ELSE NaN)
    ELSE IF a.n < 0 THEN NaN
    ELSE IF a.n = 0 THEN a
    ELSE RootOf(Over4(a.n, a.d, (Exp2(a.n, a.d) \div 2) - (MantissaBits - 1)),
                (Exp2(a.n, a.d) \div 2) - (MantissaBits - 1))

\* A value v that no rounding went into.
Fl(v) == [v |-> v, ok |-> TRUE]

\* The rounded result r of an operation whose exact result is e.
Flag(e, r, ok) == [v |-> r, ok |-> ok /\ r = e]
Rounded(e, ok) == Flag(e, Round(e), ok)

AddF(a, b) == Rounded(NumAdd(a.v, b.v), a.ok /\ b.ok)
SubF(a, b) == Rounded(NumSub(a.v, b.v), a.ok /\ b.ok)
MulF(a, b) == Rounded(NumMul(a.v, b.v), a.ok /\ b.ok)
DivF(a, b) == Rounded(NumDiv(a.v, b.v), a.ok /\ b.ok)
RootFlag(a, r) == [v |-> r, ok |-> a.ok /\ NumMul(r, r) = a.v]
SqrtF(a) == RootFlag(a, RoundSqrt(a.v))

VecF(v) == Vec(Fl(v.x), Fl(v.y), Fl(v.z))
Values(v) == Vec(v.x.v, v.y.v, v.z.v)
OkVec(v) == v.x.ok /\ v.y.ok /\ v.z.ok

addF(a, b) == Vec(AddF(a.x, b.x), AddF(a.y, b.y), AddF(a.z, b.z))
subF(a, b) == Vec(SubF(a.x, b.x), SubF(a.y, b.y), SubF(a.z, b.z))
mulScalarF(a, s) == Vec(MulF(a.x, s), MulF(a.y, s), MulF(a.z, s))
lengthF(v) == SqrtF(AddF(AddF(MulF(v.x, v.x), MulF(v.y, v.y)), MulF(v.z, v.z)))

-----------------------------------------------------------------------------
(* stepPhysics in rounded arithmetic, on a list of two meshes that have      *)
(* colliders and no bodies: the first loop skips both, and the collision     *)
(* loops test the pair (1, 2)                                                *)

MaxRoundedOps == 2  \* stepPhysics calls per behaviour of SpecRounded

worldCenterF(m) == addF(VecF(m.position), VecF(m.physics.collider.offset))

\* The literal 0.001 as the format holds it.
NudgeF == Rounded(Nudge, TRUE)

\* if (dist === 0) { delta.x = 0.001; ... }
nudgedF(delta, dist) ==
    IF NumEq(dist.v, Zero) THEN Vec(NudgeF, NudgeF, NudgeF) ELSE delta

\* dist || 1
OrOneF(dist) == IF falsy(dist.v) THEN Fl(One) ELSE dist

\* normal = mulScalar(delta, 1 / (dist || 1))
contactNormalF(delta, dist) ==
    mulScalarF(nudgedF(delta, dist), DivF(Fl(One), OrOneF(dist)))

\* Fault variant of correctionOfF: the whole penetration instead of half of it.
correctionWholeF(normal, dist, minDist) == mulScalarF(normal, SubF(minDist, dist))

\* penetration = minDist - dist; correction = mulScalar(normal, penetration * 0.5)
correctionOfF(normal, dist, minDist) ==
    mulScalarF(normal, MulF(SubF(minDist, dist), Fl(Half)))

\* The two positions after the correction.
correctPositionsF(A, B, correction) ==
    [A |-> addF(VecF(A.position), mulScalarF(correction, Fl(NumNeg(One)))),
     B |-> addF(VecF(B.position), correction)]

\* if (dist < minDist) { ... }: the two positions afterwards
resolveOverlapF(A, B, delta, dist, minDist) ==
    IF overlaps(dist.v, minDist.v)
    THEN correctPositionsF(A, B,
             correctionOfF(contactNormalF(delta, dist), dist, minDist))
    ELSE [A |-> VecF(A.position), B |-> VecF(B.position)]

\* The test of the pair as the history keeps it; ok: no operation of the test
\* rounded its result.
pairTestedF(A, B, dist, minDist, after) ==
    [i |-> 1, j |-> 2, A |-> A, B |-> B,
     A2 |-> [A EXCEPT !.position = Values(after.A)],
     B2 |-> [B EXCEPT !.position = Values(after.B)],
     dist |-> dist.v, minDist |-> minDist.v,
     ok |-> dist.ok /\ minDist.ok /\ OkVec(after.A) /\ OkVec(after.B)]

testPairF(A, B, delta, dist, minDist) ==
    pairTestedF(A, B, dist, minDist, resolveOverlapF(A, B, delta, dist, minDist))

\* The body of the inner loop for the pair (A, B).
resolvePairF(A, B) ==
    testPairF(A, B, subF(worldCenterF(B), worldCenterF(A)),
              lengthF(subF(worldCenterF(B), worldCenterF(A))),
              AddF(Fl(A.physics.collider.radius), Fl(B.physics.collider.radius)))

\* Two meshes with colliders and no bodies, their coordinates numbers of the
\* format.
RoundedColliders ==
    { Ball, SmallBall, SphereCollider(Q(3, 4), ZeroVec) }

RoundedScenes ==
    { <<Mesh(V3(0, 0, 0), Physics(Undefined, Ball)),
        Mesh(Vec(Q(x, 4), Q(y, 4), Q(z, 2)), Physics(Undefined, c))>> :
        x \in 0..6, y \in {0, 2, 4, 5}, z \in 0..1, c \in RoundedColliders }

InitRounded ==
    /\ meshes \in RoundedScenes
    /\ last = Op("new", 0, Zero, ZeroVec, meshes, meshes, <<>>, NoOp)
    /\ applied = [k \in 1..Len(meshes) |-> <<>>]
    /\ attached = [k \in 1..Len(meshes) |-> meshes[k].physics]
    /\ scene = NewScene
    /\ nOps = 0

\* stepPhysics(meshes, dt), r being the test of the pair (1, 2); the history
\* also keeps the pair test of the call before.
SteppedRounded(dt, r) ==
    /\ Exact(<<r.A2, r.B2>>, <<r>>)
    /\ meshes' = <<r.A2, r.B2>>
    /\ last' = [op |-> "stepPhysics", i |-> 0, dt |-> dt, force |-> ZeroVec,
                before |-> meshes, integrated |-> meshes, pairs |-> <<r>>,
                prev |-> [op |-> last.op, i |-> last.i, dt |-> last.dt,
                          pairs |-> last.pairs]]
    /\ nOps' = nOps + 1
    /\ UNCHANGED <<applied, attached, scene>>

StepPhysicsRounded(dt) ==
    /\ Len(meshes) = 2
    /\ \A k \in 1..2 : hasCollider(meshes[k]) /\ ~hasBody(meshes[k])
    /\ SteppedRounded(dt, resolvePairF(meshes[1], meshes[2]))

NextRounded ==
    \E dt \in Dts : nOps < MaxRoundedOps /\ StepPhysicsRounded(dt)

SpecRounded == InitRounded /\ [][NextRounded]_vars

-----------------------------------------------------------------------------
(* The distance after the correction, under SpecRounded *)

\* The one pair test of the last call and of the call before it.
ThisTest == last.pairs[1]
PrevTest == last.prev.pairs[1]

\* The last call had dt <= 0 and directly followed a call that found the pair
\* overlapping with 0 < dist < minDist.
AfterCorrection ==
    /\ last.op = "stepPhysics" /\ NumLe(last.dt, Zero)
    /\ last.prev.op = "stepPhysics"
    /\ NumGt(PrevTest.dist, Zero) /\ NumLt(PrevTest.dist, PrevTest.minDist)

\* C15 as stated: a pair found overlapping with 0 < dist < minDist is left at
\* the distance minDist exactly, and the stepPhysics call with dt <= 0 that
\* follows at once does not find it overlapping.
C15_AsStated ==
    AfterCorrection =>
        ThisTest.dist = ThisTest.minDist /\ ThisTest.A2 = ThisTest.A
                                         /\ ThisTest.B2 = ThisTest.B

\* C15 as amended: the same holds when no operation of the correction and of
\* the distance computed after it rounded its result; when one did, the
\* distance is minDist only up to the rounding.
C15_ExactWhenUnrounded ==
    (AfterCorrection /\ PrevTest.ok /\ ThisTest.ok) =>
        ThisTest.dist = ThisTest.minDist /\ ThisTest.A2 = ThisTest.A
                                         /\ ThisTest.B2 = ThisTest.B

\* Centers (0, 0, 0) and (1, 0, 0), radii 1: the meshes were moved to x = -1/2
\* and x = 3/2 with no rounding, and the next call found them at distance 2.
C15_Witness ==
    /\ AfterCorrection /\ PrevTest.ok /\ ThisTest.ok
    /\ PrevTest.A.position = V3(0, 0, 0) /\ PrevTest.B.position = V3(1, 0, 0)
    /\ PrevTest.minDist = Two
    /\ ThisTest.A.position = Vec(Q(-1, 2), Zero, Zero)
    /\ ThisTest.B.position = Vec(Q(3, 2), Zero, Zero)
    /\ ThisTest.dist = Two

-----------------------------------------------------------------------------
(* Linear momentum, under Spec *)

\* mA * vA + mB * vB
Momentum(mA, vA, mB, vB) == add(mulScalar(vA, mA), mulScalar(vB, mB))

MomentumBefore(p) == Momentum(MassA(p), VelA(p), MassB(p), VelB(p))
MomentumAfter(p) ==
    Momentum(p.A2.physics.body.mass, p.A2.physics.body.velocity,
             p.B2.physics.body.mass, p.B2.physics.body.velocity)

\* C16: an overlapping pair of bodies with masses > 0 has the same total
\* momentum mA * vA + mB * vB after the pair is resolved as before, whether the
\* impulse is applied or skipped; the momentum is a finite vector.
C16_MomentumConserved ==
    \A p \in Tested :
        (/\ Overlapping(p) /\ BothBodies(p)
         /\ NumGt(MassA(p), Zero) /\ NumGt(MassB(p), Zero)) =>
            /\ FiniteVec(MomentumBefore(p))
            /\ MomentumAfter(p) = MomentumBefore(p)

\* Masses 2 and 1 with vA = (1, 0, 0) and vB = (-1, 0, 0): the impulse changed
\* both velocities and the momentum is (1, 0, 0) before and after.
C16_Witness ==
    \E p \in Tested :
        /\ Overlapping(p) /\ BothBodies(p)
        /\ MassA(p) = Two /\ MassB(p) = One
        /\ VelA(p) = V3(1, 0, 0) /\ VelB(p) = V3(-1, 0, 0)
        /\ p.A2.physics.body.velocity # VelA(p)
        /\ p.B2.physics.body.velocity # VelB(p)
        /\ MomentumAfter(p) = V3(1, 0, 0)

-----------------------------------------------------------------------------
(* The animation loop of Scene *)

MaxSceneOps == 6    \* calls and frames per behaviour of SpecAnim
MaxCallbacks == 2   \* callbacks registered with onAnimate

\* onAnimate(callback)
onAnimate(s) == [s EXCEPT !.animationCallbacks = @ + 1]

\* animate: every registered callback is run once, the scene is rendered and
\* this.animate is handed to requestAnimationFrame.
animate(s) ==
    IF ~s.isAnimating THEN s
    ELSE [s EXCEPT !.lastTime = s.now, !.ran = @ + 1, !.frameRequests = @ + 1]

startAnimation(s) ==
    IF s.isAnimating THEN s
    ELSE animate([s EXCEPT !.isAnimating = TRUE, !.lastTime = s.now])

stopAnimation(s) == [s EXCEPT !.isAnimating = FALSE]

\* The browser runs the k callbacks it held when the frame began.
RECURSIVE runQueued(_, _)
runQueued(s, k) == IF k = 0 THEN s ELSE runQueued(animate(s), k - 1)

\* An animation frame: the requests made during the frame are for the next.
frame(s) ==
    runQueued([s EXCEPT !.now = @ + 1, !.frameRequests = 0, !.ran = 0],
              s.frameRequests)

InitAnim ==
    /\ meshes = <<>>
    /\ last = Op("new", 0, Zero, ZeroVec, meshes, meshes, <<>>, NoOp)
    /\ applied = <<>>
    /\ attached = <<>>
    /\ scene = NewScene
    /\ nOps = 0

\* A call of a Scene method or a frame of the browser, named op.
SceneOp(op, s) ==
    /\ scene' = s
    /\ last' = Op(op, 0, Zero, ZeroVec, meshes, meshes, <<>>, last)
    /\ nOps' = nOps + 1
    /\ UNCHANGED <<meshes, applied, attached>>

OnAnimate ==
    scene.animationCallbacks < MaxCallbacks /\ SceneOp("onAnimate", onAnimate(scene))

StartAnimation == SceneOp("startAnimation", startAnimation(scene))

StopAnimation == SceneOp("stopAnimation", stopAnimation(scene))

Frame == SceneOp("frame", frame(scene))

NextAnim ==
    \/ nOps < MaxSceneOps /\ OnAnimate
    \/ nOps < MaxSceneOps /\ StartAnimation
    \/ nOps < MaxSceneOps /\ StopAnimation
    \/ nOps < MaxSceneOps /\ Frame

SpecAnim == InitAnim /\ [][NextAnim]_vars

\* C17: whatever the order of startAnimation, stopAnimation and frames, at
\* most one animate callback is held by requestAnimationFrame, and a frame
\* runs the registered callbacks at most once.
C17_SingleLoop ==
    /\ scene.frameRequests <= 1
    /\ last.op = "frame" => scene.ran <= 1

====
